---- MODULE Spec2Model ----
(***************************************************************************)
(* Host telemetry collector (system_info.py) and its MCP tool adapter      *)
(* (mcp_server.py): the unit formatter bytes_to_human, the six domain      *)
(* collectors, the aggregator get_host_info, and the CLI presenter main.   *)
(***************************************************************************)
EXTENDS Integers, Sequences, FiniteSets, TLC

VARIABLES
    fn,         \* a function called on its own: its name
    arg,        \* ... the argument of the call (for a collector: what the provider answers)
    ret,        \* ... what the call gave, PENDING before it returns
    entry,      \* which script runs: "cli" (system_info.py) or "server" (mcp_server.py)
    platform,   \* sys.platform of the host: "darwin" or "linux"
    argv,       \* cli: the command line arguments after the script's name
    pc,         \* where the running script is
    calls,      \* the collectors the current get_host_info call has called, in order
    parts,      \* the operands of get_host_info's dict display evaluated so far
    data,       \* what get_host_info returned (None before it returns)
    out,        \* what has been printed on standard output
    exc,        \* the exception that ended the run or the request (None when none)
    served      \* server: the requests answered so far

vars == <<fn, arg, ret, entry, platform, argv, pc, calls, parts, data, out, exc, served>>

(***************************************************************************)
(* Python integers are unbounded.  A byte count is kept as a pair          *)
(* [m, e] standing for m * 1024^e, so that counts in the TB and PB range   *)
(* and beyond the range of a double can be written down.                   *)
(***************************************************************************)
MaxMantissa == 2100     \* mantissas 0..MaxMantissa are all enumerated
MaxExp == 103           \* 1024^103 = 2^1030 lies beyond the largest double

RECURSIVE Pow1024(_)
Pow1024(k) == IF k = 0 THEN 1 ELSE 1024 * Pow1024(k - 1)

Int0(m) == [m |-> m, e |-> 0]

\* a <= b for a = a.m * 1024^a.e, b = b.m * 1024^b.e (mantissas below 2^30)
Leq(a, b) ==
    IF a.e >= b.e
    THEN \/ a.m = 0
         \/ /\ a.e - b.e <= 3
            /\ a.m <= b.m \div Pow1024(a.e - b.e)
    ELSE \/ a.m = 0
         \/ /\ b.m > 0
            /\ \/ b.e - a.e >= 3
               \/ LET P == Pow1024(b.e - a.e)
                  IN  \/ a.m \div P < b.m
                      \/ a.m \div P = b.m /\ a.m % P = 0

Less(a, b) == ~Leq(b, a)
Same(a, b) == Leq(a, b) /\ Leq(b, a)

\* symbols = ("B", "KB", "MB", "GB", "TB", "PB")
symbols == <<"B", "KB", "MB", "GB", "TB", "PB">>

\* prefix[s] = 1 << (i * 10) for the i-th symbol after "B"
prefix(i) == [m |-> 1, e |-> i]

\* float(n): an int of 2^1024 or more has no double; float() raises OverflowError.
\* 2^1024 = 16 * 1024^102.  Every n of the model has at most 31 significant
\* bits, so that below that limit float(n) is n exactly.
FloatOverflows(x) == Leq([m |-> 16, e |-> 102], x)

\* a slip: the digit after the second decimal always rounds up
RoundCeiling(num, den) == (num + den - 1) \div den

\* round(num / den) to the nearest integer, an exact tie going to the even one:
\* what the correctly rounded "%.2f" does with the digit after the second decimal
RoundHalfEven(num, den) ==
    LET t == num \div den
        r == num % den
    IN  IF 2 * r > den \/ (2 * r = den /\ t % 2 = 1) THEN t + 1 ELSE t

\* f"{value:.2f} {s}" for value = float(x) / prefix[s], s = symbols[i + 1]:
\* the string as its integer part, its two decimal digits and its unit
FormatScaled(x, i) ==
    IF x.e >= i
    THEN [whole |-> [m |-> x.m, e |-> x.e - i], frac |-> <<0, 0>>,
          unit |-> symbols[i + 1]]
    ELSE LET P == Pow1024(i - x.e)
             h == 100 * (x.m \div P) + RoundHalfEven(100 * (x.m % P), P)
         IN  [whole |-> Int0(h \div 100),
              frac |-> <<(h % 100) \div 10, h % 10>>,
              unit |-> symbols[i + 1]]

\* f"{n} B": the integer printed as it is, no decimals
FormatBytes(x) == [whole |-> x, frac |-> <<>>, unit |-> "B"]

OverflowError == [raised |-> "OverflowError"]

\* the loop over reversed(symbols[1:]): PB first, the first unit that fits wins
RECURSIVE ScanUnits(_, _)
ScanUnits(x, i) ==
    IF i = 0 THEN FormatBytes(x)
    ELSE IF Leq(prefix(i), x)
         THEN IF FloatOverflows(x) THEN OverflowError ELSE FormatScaled(x, i)
         ELSE ScanUnits(x, i - 1)

bytes_to_human(x) == ScanUnits(x, Len(symbols) - 1)

PENDING == [pending |-> TRUE]

\* a few mantissas past MaxMantissa: counts of about 1 MB written out in bytes
WideMantissas == {1048570 + k : k \in 0..10} \cup {1053818, 1572864}

Inputs ==
    {x \in [m : (0..MaxMantissa) \cup WideMantissas, e : 0..MaxExp] :
        x.m = 0 => x.e = 0}

(***************************************************************************)
(* Python values.  A slot that may hold None holds None or Val(x); a str    *)
(* that the code inspects is the tuple of its characters; a list is a      *)
(* tuple; a dict is a function from its keys.  A call of the metrics       *)
(* provider either raises or returns.                                      *)
(***************************************************************************)
None == <<>>
Val(x) == <<x>>
Raises == [raises |-> TRUE]
Returns(x) == [returns |-> x]
DidRaise(o) == "raises" \in DOMAIN o

Digits == {"0", "1", "2", "3", "4", "5", "6", "7", "8", "9"}
Whitespace == {" ", "\n", "\t"}

DigitValue(c) ==
    CASE c = "0" -> 0 [] c = "1" -> 1 [] c = "2" -> 2 [] c = "3" -> 3
      [] c = "4" -> 4 [] c = "5" -> 5 [] c = "6" -> 6 [] c = "7" -> 7
      [] c = "8" -> 8 [] c = "9" -> 9

\* str.strip()
RECURSIVE strip(_)
strip(str) ==
    IF str = <<>> THEN str
    ELSE IF Head(str) \in Whitespace THEN strip(Tail(str))
    ELSE IF str[Len(str)] \in Whitespace THEN strip(SubSeq(str, 1, Len(str) - 1))
    ELSE str

\* str.isdigit(): not empty and every character a digit
isdigit(str) == str # <<>> /\ \A i \in 1..Len(str) : str[i] \in Digits

\* int(str) of a string of digits
RECURSIVE int(_)
int(str) ==
    IF str = <<>> THEN 0
    ELSE 10 * int(SubSeq(str, 1, Len(str) - 1)) + DigitValue(str[Len(str)])

\* safe_sysctl_get(key): the stripped output of `sysctl -n key`, None when the
\* command cannot be run or fails.  o is what check_output did.
safe_sysctl_get(o) == IF DidRaise(o) THEN None ELSE Val(strip(o.returns))

\* bytes_to_human(int(x)) if x and x.isdigit() else None
CacheSize(x) ==
    IF x # None /\ x[1] # <<>> /\ isdigit(x[1])
    THEN Val(bytes_to_human(Int0(int(x[1])))) ELSE None

\* round(x, 2) of a frequency kept in thousandths of a MHz: hundredths
round2(x) == RoundHalfEven(x, 10)

CacheKeys == {"hw.l1icachesize", "hw.l1dcachesize", "hw.l2cachesize", "hw.l3cachesize"}
BrandKey == "machdep.cpu.brand_string"

\* cpu_info, lines 40-49: psutil.cpu_freq() in its try block
CpuFrequency(freq) ==
    IF ~DidRaise(freq) /\ freq.returns # None
    THEN [max_frequency_mhz |-> Val(round2(freq.returns[1].max)),
          min_frequency_mhz |-> Val(round2(freq.returns[1].min)),
          current_frequency_mhz |-> Val(round2(freq.returns[1].current))]
    ELSE [max_frequency_mhz |-> None, min_frequency_mhz |-> None,
          current_frequency_mhz |-> None]

\* cpu_info, lines 52-57: the two psutil.cpu_percent calls share one try block
CpuUtilization(total, percpu) ==
    IF DidRaise(total) \/ DidRaise(percpu)
    THEN [total_usage_percent |-> None, per_core_usage_percent |-> None]
    ELSE [total_usage_percent |-> Val(total.returns),
          per_core_usage_percent |-> Val(percpu.returns)]

\* a or b or None, for strs
OrNone(a, b) == IF a # <<>> THEN Val(a) ELSE IF b # <<>> THEN Val(b) ELSE None

\* a slip: off darwin the cache keys are never set
CpuBrandAndCachesUnset(plat, env) ==
    IF plat = "darwin"
    THEN LET brand == safe_sysctl_get(env.sysctl[BrandKey])
         IN  [l1i_cache |-> CacheSize(safe_sysctl_get(env.sysctl["hw.l1icachesize"])),
              l1d_cache |-> CacheSize(safe_sysctl_get(env.sysctl["hw.l1dcachesize"])),
              l2_cache |-> CacheSize(safe_sysctl_get(env.sysctl["hw.l2cachesize"])),
              l3_cache |-> CacheSize(safe_sysctl_get(env.sysctl["hw.l3cachesize"])),
              brand |-> IF brand = None
                        THEN OrNone(env.uname_processor, env.platform_processor)
                        ELSE brand]
    ELSE [brand |-> OrNone(env.platform_processor, env.uname_processor)]

\* cpu_info, lines 60-79: the brand and the cache sizes, by platform
CpuBrandAndCaches(plat, env) ==
    IF plat = "darwin"
    THEN LET brand == safe_sysctl_get(env.sysctl[BrandKey])
         IN  [l1i_cache |-> CacheSize(safe_sysctl_get(env.sysctl["hw.l1icachesize"])),
              l1d_cache |-> CacheSize(safe_sysctl_get(env.sysctl["hw.l1dcachesize"])),
              l2_cache |-> CacheSize(safe_sysctl_get(env.sysctl["hw.l2cachesize"])),
              l3_cache |-> CacheSize(safe_sysctl_get(env.sysctl["hw.l3cachesize"])),
              brand |-> IF brand = None
                        THEN OrNone(env.uname_processor, env.platform_processor)
                        ELSE brand]
    ELSE [l1i_cache |-> None, l1d_cache |-> None, l2_cache |-> None,
          l3_cache |-> None,
          brand |-> OrNone(env.platform_processor, env.uname_processor)]

\* cpu_info(): the two psutil.cpu_count calls are outside any try block
cpu_info(plat, env) ==
    IF DidRaise(env.physical) \/ DidRaise(env.logical) THEN Raises
    ELSE Returns(
           [architecture |-> IF env.machine # <<>> THEN env.machine
                             ELSE env.uname_machine,
            physical_cores |-> env.physical.returns,
            total_cores |-> env.logical.returns]
           @@ CpuFrequency(env.freq)
           @@ CpuUtilization(env.pct_total, env.pct_percpu)
           @@ CpuBrandAndCaches(plat, env))

\* memory_info(): nothing is caught
memory_info(env) ==
    IF DidRaise(env.vm) \/ DidRaise(env.sm) THEN Raises
    ELSE LET vm == env.vm.returns
             sm == env.sm.returns
         IN  Returns([total |-> bytes_to_human(vm.total),
                      available |-> bytes_to_human(vm.available),
                      used |-> bytes_to_human(vm.used),
                      free |-> bytes_to_human(vm.free),
                      percent |-> vm.percent,
                      swap_total |-> bytes_to_human(sm.total),
                      swap_used |-> bytes_to_human(sm.used),
                      swap_free |-> bytes_to_human(sm.free),
                      swap_percent |-> sm.percent])

\* disk_info, lines 103-116: one record for one partition; usage is what
\* psutil.disk_usage(part.mountpoint) did
DiskRecord(part, usage) ==
    LET u == IF DidRaise(usage) THEN None ELSE Val(usage.returns)
    IN  [device |-> part.device,
         mountpoint |-> part.mountpoint,
         fstype |-> part.fstype,
         opts |-> part.opts,
         total |-> IF u # None THEN Val(bytes_to_human(u[1].total)) ELSE None,
         used |-> IF u # None THEN Val(bytes_to_human(u[1].used)) ELSE None,
         free |-> IF u # None THEN Val(bytes_to_human(u[1].free)) ELSE None,
         percent |-> IF u # None THEN Val(u[1].percent) ELSE None]

\* a slip: a partition whose usage query raises is skipped
RECURSIVE ReadableRecords(_, _)
ReadableRecords(ps, usage) ==
    IF ps = <<>> THEN <<>>
    ELSE (IF DidRaise(usage[Head(ps).mountpoint]) THEN <<>>
          ELSE <<DiskRecord(Head(ps), usage[Head(ps).mountpoint])>>)
         \o ReadableRecords(Tail(ps), usage)

disk_info_skipping(env) ==
    IF DidRaise(env.partitions) THEN Raises
    ELSE Returns(ReadableRecords(env.partitions.returns, env.usage))

\* disk_info(): env.partitions is what psutil.disk_partitions did, env.usage
\* what psutil.disk_usage does for each mountpoint
disk_info(env) ==
    IF DidRaise(env.partitions) THEN Raises
    ELSE LET ps == env.partitions.returns
         IN  Returns([i \in 1..Len(ps) |->
                         DiskRecord(ps[i], env.usage[ps[i].mountpoint])])

\* a slip: no fallback to the resolution of the host's name
PrimaryIpNoFallback(sock, resolve) ==
    IF DidRaise(sock) THEN None ELSE Val(sock.returns)

\* network_info, lines 123-135: the outbound UDP socket first, then the
\* resolution of the host's own name, then None.  sock is what
\* connect/getsockname did, resolve what socket.gethostbyname does.
PrimaryIp(sock, resolve) ==
    LET first == IF DidRaise(sock) THEN None ELSE Val(sock.returns)
    IN  IF first = None \/ first = Val(<<>>)
        THEN IF DidRaise(resolve) THEN None ELSE Val(resolve.returns)
        ELSE first

\* network_info, lines 142-147: the AF_INET addresses of one interface, in
\* order; link-layer entries are skipped
RECURSIVE Ipv4Of(_)
Ipv4Of(addrs) ==
    IF addrs = <<>> THEN <<>>
    ELSE IF Head(addrs).family = "AF_LINK" THEN Ipv4Of(Tail(addrs))
    ELSE IF Head(addrs).family = "AF_INET"
         THEN <<Head(addrs).address>> \o Ipv4Of(Tail(addrs))
         ELSE Ipv4Of(Tail(addrs))

\* getattr(st, name, None) for st = if_stats.get(name)
StatOf(stats, name, attr) ==
    IF name \in DOMAIN stats THEN Val(stats[name][attr]) ELSE None

\* network_info, lines 148-154: the brief of one interface
InterfaceBrief(name, addrs, stats) ==
    [isup |-> StatOf(stats, name, "isup"),
     speed_mbps |-> StatOf(stats, name, "speed"),
     mtu |-> StatOf(stats, name, "mtu"),
     ipv4 |-> Ipv4Of(addrs)]

\* network_info(): gethostname, net_if_addrs and net_if_stats are outside any
\* try block.  The interfaces dict keeps the order of net_if_addrs: it is the
\* sequence of its (name, brief) items.
network_info(env) ==
    IF DidRaise(env.if_addrs) \/ DidRaise(env.if_stats) THEN Raises
    ELSE LET ifs == env.if_addrs.returns
         IN  Returns(
               [hostname |-> env.hostname,
                primary_ip |-> PrimaryIp(env.sock, env.resolve),
                interfaces |->
                    [i \in 1..Len(ifs) |->
                        [name |-> ifs[i].name,
                         brief |-> InterfaceBrief(ifs[i].name, ifs[i].addrs,
                                                  env.if_stats.returns)]]])

\* os_info(): psutil.boot_time() is outside any try block
os_info(env) ==
    IF DidRaise(env.boot_time) THEN Raises
    ELSE Returns([system |-> env.uname.system,
                  node_name |-> env.uname.node,
                  release |-> env.uname.release,
                  version |-> env.uname.version,
                  machine |-> env.uname.machine,
                  processor |-> env.uname.processor,
                  python |-> env.python,
                  boot_time |-> [strftime |-> "%Y-%m-%d %H:%M:%S",
                                 of |-> env.boot_time.returns]])

\* battery_info(): a failing query and no battery both give None
battery_info(sensor) ==
    LET batt == IF DidRaise(sensor) THEN None ELSE sensor.returns
    IN  IF batt = None THEN None
        ELSE Val([percent |-> batt[1].percent,
                  plugged |-> batt[1].power_plugged,
                  secsleft |-> batt[1].secsleft])

\* a slip: memory collected before cpu
CollectorOrderSwapped == <<"os", "memory", "cpu", "disks", "network", "battery">>

\* get_host_info, lines 198-205: the collectors in the order the dict display
\* evaluates them
CollectorOrder == <<"os", "cpu", "memory", "disks", "network", "battery">>

(***************************************************************************)
(* The presenters of main()                                                *)
(***************************************************************************)
\* the section titles main() prints (Chinese in the source, line numbers given)
TitleOs == "OS"             \* line 218
TitleCpu == "CPU"           \* line 222
TitleMemory == "Memory"     \* line 236
TitleDisk == "Disk"         \* line 241
TitleNetwork == "Network"   \* line 252
TitleBattery == "Battery"   \* line 265

\* print_section(title): a blank line, the title, a rule under it
print_section(title) == <<[section |-> title]>>

\* print_kv(key, value): one right-aligned "key: value" line
print_kv(key, value) == <<[key |-> key, value |-> value]>>

\* print("")
BlankLine == <<[blank |-> TRUE]>>

\* the lines of `for k in keys: print_kv(k, d[k])`
RECURSIVE KvLines(_, _)
KvLines(keys, d) ==
    IF keys = <<>> THEN <<>>
    ELSE print_kv(Head(keys), d[Head(keys)]) \o KvLines(Tail(keys), d)

\* as KvLines, for the keys whose value is not None (lines 228-230)
RECURSIVE KvLinesNotNone(_, _)
KvLinesNotNone(keys, d) ==
    IF keys = <<>> THEN <<>>
    ELSE (IF d[Head(keys)] # None THEN print_kv(Head(keys), d[Head(keys)])
          ELSE <<>>) \o KvLinesNotNone(Tail(keys), d)

OsKeys == <<"system", "node_name", "release", "version", "machine", "processor",
            "python", "boot_time">>
CpuKeys == <<"brand", "architecture", "physical_cores", "total_cores",
             "current_frequency_mhz", "min_frequency_mhz", "max_frequency_mhz",
             "total_usage_percent">>
CpuCacheKeys == <<"l1i_cache", "l1d_cache", "l2_cache", "l3_cache">>
MemoryKeys == <<"total", "available", "used", "free", "percent",
                "swap_total", "swap_used", "swap_free", "swap_percent">>
DiskKeys == <<"device", "mountpoint", "fstype", "total", "used", "free", "percent">>
BatteryKeys == <<"percent", "plugged", "secsleft">>

\* lines 232-234: one line per core, numbered from 1, when the value is a list
CoreLines(cpu) ==
    IF cpu.per_core_usage_percent = None THEN <<>>
    ELSE [i \in 1..Len(cpu.per_core_usage_percent[1]) |->
             [core |-> i, value |-> cpu.per_core_usage_percent[1][i]]]

\* lines 242-250
RECURSIVE DiskLines(_)
DiskLines(disks) ==
    IF disks = <<>> THEN <<>>
    ELSE KvLines(DiskKeys, Head(disks)) \o BlankLine \o DiskLines(Tail(disks))

\* lines 255-262
RECURSIVE InterfaceLines(_)
InterfaceLines(ifs) ==
    IF ifs = <<>> THEN <<>>
    ELSE LET name == Head(ifs).name
             brief == Head(ifs).brief
         IN  print_kv("interface", name)
             \o print_kv("  isup", brief.isup)
             \o print_kv("  speed_mbps", brief.speed_mbps)
             \o print_kv("  mtu", brief.mtu)
             \o (IF brief.ipv4 # <<>>
                 THEN print_kv("  ipv4", [join |-> ", ", of |-> brief.ipv4])
                 ELSE <<>>)
             \o BlankLine
             \o InterfaceLines(Tail(ifs))

\* a slip: the battery section is printed whether there is a battery or not
BatteryLinesAlways(battery) ==
    print_section(TitleBattery)
    \o (IF battery # None THEN KvLines(BatteryKeys, battery[1]) ELSE <<>>)

\* lines 264-267: the battery section, when data["battery"] is truthy
BatteryLines(battery) ==
    IF battery # None
    THEN print_section(TitleBattery) \o KvLines(BatteryKeys, battery[1])
    ELSE <<>>

\* main(), lines 217-267: the report without --json
HumanReport(d) ==
    print_section(TitleOs) \o KvLines(OsKeys, d.os)
    \o print_section(TitleCpu) \o KvLines(CpuKeys, d.cpu)
    \o KvLinesNotNone(CpuCacheKeys, d.cpu) \o CoreLines(d.cpu)
    \o print_section(TitleMemory) \o KvLines(MemoryKeys, d.memory)
    \o print_section(TitleDisk) \o DiskLines(d.disks)
    \o print_section(TitleNetwork)
    \o print_kv("hostname", d.network.hostname)
    \o print_kv("primary_ip", d.network.primary_ip)
    \o InterfaceLines(d.network.interfaces)
    \o BatteryLines(d.battery)

\* json.dumps(data, indent=2, ensure_ascii=False): one JSON object with a member
\* per key of data; None is written null, every other value by its own
\* encoding.  Of the six values only battery can be None.
JsonNull == [json |-> "null"]
JsonDumps(d) ==
    [k \in DOMAIN d |->
        IF k = "battery" THEN (IF d[k] = None THEN JsonNull ELSE d[k][1])
        ELSE d[k]]

\* main(), lines 213-215: the output with --json
JsonReport(d) == <<[json |-> JsonDumps(d)]>>

(***************************************************************************)
(* What the host and the metrics provider can answer                       *)
(***************************************************************************)
MaxRequests == 2        \* the requests a server run is followed through

GB(k) == [m |-> k, e |-> 3]
MB(k) == [m |-> k, e |-> 2]

Unames ==
    [darwin |-> [system |-> "Darwin", node |-> "host1", release |-> "23.1.0",
                 version |-> "Darwin Kernel Version 23.1.0",
                 machine |-> <<"a", "r", "m", "6", "4">>],
     linux |-> [system |-> "Linux", node |-> "host1", release |-> "6.1.0",
                version |-> "#1 SMP",
                machine |-> <<"x", "8", "6", "_", "6", "4">>]]

Processors == {<<>>, <<"a", "r", "m">>}

OsEnvs(plat) ==
    [uname : {Unames[plat] @@ [processor |-> p] : p \in Processors},
     python : {"3.11.4"},
     boot_time : {Raises, Returns(1767225600)}]

CacheOutputs ==
    {Raises,
     Returns(<<"3", "2", "7", "6", "8", "\n">>),
     Returns(<<"n", "/", "a", "\n">>)}
BrandOutputs == {Raises, Returns(<<"A", "p", "p", "l", "e", " ", "M", "1", "\n">>)}

\* what `sysctl -n key` does for each key the code asks for
SysctlTables(plat) ==
    IF plat = "darwin"
    THEN {t \in [CacheKeys \cup {BrandKey} -> CacheOutputs \cup BrandOutputs] :
             /\ t[BrandKey] \in BrandOutputs
             /\ \A k \in CacheKeys : t[k] \in CacheOutputs}
    ELSE {[k \in CacheKeys \cup {BrandKey} |-> Raises]}

CpuEnvs(plat) ==
    [machine : {Unames[plat].machine},
     uname_machine : {Unames[plat].machine},
     physical : {Raises, Returns(None), Returns(Val(4))},
     logical : {Raises, Returns(Val(8))},
     freq : {Raises, Returns(None),
             Returns(Val([max |-> 3200000, min |-> 800000, current |-> 2394126]))},
     pct_total : {Raises, Returns(125)},
     pct_percpu : {Raises, Returns(<<100, 150>>)},
     sysctl : SysctlTables(plat),
     uname_processor : Processors,
     platform_processor : Processors]

MemoryEnvs ==
    [vm : {Raises,
           Returns([total |-> GB(16), available |-> MB(6144), used |-> MB(9728),
                    free |-> Int0(512), percent |-> 625])},
     sm : {Raises,
           Returns([total |-> Int0(0), used |-> Int0(0), free |-> Int0(0),
                    percent |-> 0])}]

PartitionPool ==
    {[device |-> "/dev/sda1", mountpoint |-> "/", fstype |-> "ext4", opts |-> "rw"],
     [device |-> "//nas/share", mountpoint |-> "/mnt/nas", fstype |-> "cifs",
      opts |-> "rw,noexec"]}

Mountpoints == {p.mountpoint : p \in PartitionPool}

Usages ==
    {Raises,
     Returns([total |-> GB(512), used |-> MB(1536), free |-> GB(510), percent |-> 3])}

\* the enumerations psutil.disk_partitions can give: the partitions of the
\* pool, each at most once, in any order
PartitionLists ==
    {<<>>} \cup {<<p>> : p \in PartitionPool}
    \cup {l \in {<<p, q>> : p \in PartitionPool, q \in PartitionPool} : l[1] # l[2]}

DiskEnvs ==
    [partitions : {Raises} \cup {Returns(ps) : ps \in PartitionLists},
     usage : [Mountpoints -> Usages]]

Loopback == <<127, 0, 0, 1>>
LanAddress == <<192, 168, 1, 10>>
ResolvedAddress == <<10, 0, 0, 5>>

IfLo ==
    [name |-> "lo0",
     addrs |-> <<[family |-> "AF_INET", address |-> Loopback],
                 [family |-> "AF_INET6", address |-> <<"::1">>]>>]
IfEn ==
    [name |-> "en0",
     addrs |-> <<[family |-> "AF_LINK", address |-> <<"a4:83:e7:00:00:01">>],
                 [family |-> "AF_INET", address |-> LanAddress],
                 [family |-> "AF_INET6", address |-> <<"fe80::1">>]>>]

StatLo == [isup |-> TRUE, speed |-> 0, mtu |-> 16384]
StatEn == [isup |-> TRUE, speed |-> 1000, mtu |-> 1500]

NetworkEnvs ==
    [hostname : {"host1"},
     sock : {Raises, Returns(<<>>), Returns(LanAddress)},
     resolve : {Raises, Returns(Loopback), Returns(ResolvedAddress)},
     if_addrs : {Raises, Returns(<<>>), Returns(<<IfLo, IfEn>>)},
     if_stats : {Raises, Returns([lo0 |-> StatLo, en0 |-> StatEn]),
                 Returns([lo0 |-> StatLo])}]

BatterySensors ==
    {Raises, Returns(None),
     Returns(Val([percent |-> 80, power_plugged |-> FALSE, secsleft |-> 7200]))}

\* For the run of a whole program: one host at a time.  platform.processor()
\* is uname().processor, and a host's sysctl knows the cache keys or does not.
HostSysctlTables(plat) ==
    IF plat = "darwin"
    THEN {[k \in CacheKeys \cup {BrandKey} |-> IF k = BrandKey THEN b ELSE c] :
             b \in BrandOutputs, c \in CacheOutputs}
    ELSE SysctlTables(plat)

HostOsEnvs(plat) ==
    {env \in OsEnvs(plat) : env.uname.processor # <<>>}

HostCpuEnvs(plat) ==
    {env \in [machine : {Unames[plat].machine},
              uname_machine : {Unames[plat].machine},
              physical : {Raises, Returns(None), Returns(Val(4))},
              logical : {Raises, Returns(Val(8))},
              freq : {Raises, Returns(None),
                      Returns(Val([max |-> 3200000, min |-> 800000,
                                   current |-> 2394126]))},
              pct_total : {Raises, Returns(125)},
              pct_percpu : {Raises, Returns(<<100, 150>>)},
              sysctl : HostSysctlTables(plat),
              uname_processor : Processors,
              platform_processor : Processors] :
        env.uname_processor = env.platform_processor}

HostDiskEnvs ==
    {env \in DiskEnvs :
        /\ ~DidRaise(env.usage["/"])
        /\ ~DidRaise(env.partitions) => Len(env.partitions.returns) # 1}

HostNetworkEnvs ==
    {env \in NetworkEnvs : env.if_addrs # Returns(<<>>)}

(***************************************************************************)
(* The two programs: main() of system_info.py, and the tool of             *)
(* mcp_server.py served over stdio                                         *)
(***************************************************************************)
NoParts == [k \in {} |-> None]

IndexOf(name) == CHOOSE i \in 1..Len(CollectorOrder) : CollectorOrder[i] = name

Init ==
    /\ fn = "none" /\ arg = None /\ ret = PENDING
    /\ entry \in {"cli", "server"}
    /\ platform \in {"darwin", "linux"}
    /\ argv \in IF entry = "cli" THEN {<<>>, <<"--json">>} ELSE {<<>>}
    /\ pc = IF entry = "cli" THEN "main" ELSE "serve"
    /\ calls = <<>>
    /\ parts = NoParts
    /\ data = None
    /\ out = <<>>
    /\ exc = None
    /\ served = 0

\* a slip: the first section title is printed before the data is collected
MainPrintsThenCalls ==
    /\ entry = "cli" /\ pc = "main"
    /\ pc' = "os"
    /\ calls' = <<>>
    /\ parts' = NoParts
    /\ out' = out \o print_section(TitleOs)
    /\ UNCHANGED <<fn, arg, ret, entry, platform, argv, data, exc, served>>

\* main(), line 211: data = get_host_info()
MainCallsGetHostInfo ==
    /\ entry = "cli" /\ pc = "main"
    /\ pc' = CollectorOrder[1]
    /\ calls' = <<>>
    /\ parts' = NoParts
    /\ UNCHANGED <<fn, arg, ret, entry, platform, argv, data, out, exc, served>>

\* mcp_server.get_host_info: a request of the tool calls _get_host_info()
ToolCallsGetHostInfo ==
    /\ entry = "server" /\ pc = "serve"
    /\ served < MaxRequests
    /\ pc' = CollectorOrder[1]
    /\ calls' = <<>>
    /\ parts' = NoParts
    /\ data' = None
    /\ exc' = None
    /\ UNCHANGED <<fn, arg, ret, entry, platform, argv, out, served>>

\* an exception no one catches: main() dies with a traceback and a non-zero
\* exit; the tool's request is answered with an error
Propagate ==
    /\ exc' = Raises
    /\ parts' = NoParts
    /\ data' = None
    /\ IF entry = "cli"
       THEN pc' = "crashed" /\ served' = served
       ELSE pc' = "serve" /\ served' = served + 1

\* one operand of the dict display of get_host_info: the collector `name` is
\* called and did r; after the last operand the dict is built and returned
Collect(name, r) ==
    /\ calls' = Append(calls, name)
    /\ IF DidRaise(r) THEN Propagate
       ELSE /\ exc' = exc
            /\ served' = served
            /\ IF IndexOf(name) < Len(CollectorOrder)
               THEN /\ pc' = CollectorOrder[IndexOf(name) + 1]
                    /\ parts' = parts @@ (name :> r.returns)
                    /\ data' = data
               ELSE /\ pc' = "returned"
                    /\ parts' = NoParts
                    /\ data' = parts @@ (name :> r.returns)
    /\ UNCHANGED <<fn, arg, ret, entry, platform, argv, out>>

\* get_host_info, lines 199-204: the operands, each with what its providers
\* answer on this host
OsInfo ==
    /\ pc = "os"
    /\ \E env \in HostOsEnvs(platform) : Collect("os", os_info(env))

CpuInfo ==
    /\ pc = "cpu"
    /\ \E env \in HostCpuEnvs(platform) : Collect("cpu", cpu_info(platform, env))

MemoryInfo ==
    /\ pc = "memory"
    /\ \E env \in MemoryEnvs : Collect("memory", memory_info(env))

DiskInfo ==
    /\ pc = "disks"
    /\ \E env \in HostDiskEnvs : Collect("disks", disk_info(env))

NetworkInfo ==
    /\ pc = "network"
    /\ \E env \in HostNetworkEnvs : Collect("network", network_info(env))

BatteryInfo ==
    /\ pc = "battery"
    /\ \E sensor \in BatterySensors :
          Collect("battery", Returns(battery_info(sensor)))

\* main(), lines 213-215
PrintJson ==
    /\ entry = "cli" /\ pc = "returned"
    /\ \E i \in 1..Len(argv) : argv[i] = "--json"
    /\ out' = out \o JsonReport(data)
    /\ pc' = "exit"
    /\ UNCHANGED <<fn, arg, ret, entry, platform, argv, calls, parts, data, exc, served>>

\* main(), lines 217-267
PrintHuman ==
    /\ entry = "cli" /\ pc = "returned"
    /\ ~ \E i \in 1..Len(argv) : argv[i] = "--json"
    /\ out' = out \o HumanReport(data)
    /\ pc' = "exit"
    /\ UNCHANGED <<fn, arg, ret, entry, platform, argv, calls, parts, data, exc, served>>

\* mcp_server.get_host_info returns the snapshot; the server sends it and
\* waits for the next request
ToolReturns ==
    /\ entry = "server" /\ pc = "returned"
    /\ served' = served + 1
    /\ pc' = "serve"
    /\ data' = None
    /\ UNCHANGED <<fn, arg, ret, entry, platform, argv, calls, parts, out, exc>>

Next ==
    \/ MainCallsGetHostInfo
    \/ ToolCallsGetHostInfo
    \/ OsInfo
    \/ CpuInfo
    \/ MemoryInfo
    \/ DiskInfo
    \/ NetworkInfo
    \/ BatteryInfo
    \/ PrintJson
    \/ PrintHuman
    \/ ToolReturns

Spec == Init /\ [][Next]_vars

(***************************************************************************)
(* bytes_to_human on its own                                               *)
(***************************************************************************)
Idle ==
    /\ entry = "cli" /\ platform = "linux" /\ argv = <<>> /\ pc = "main"
    /\ calls = <<>> /\ parts = NoParts /\ data = None /\ out = <<>>
    /\ exc = None /\ served = 0

InitFmt == fn = "bytes_to_human" /\ arg \in Inputs /\ ret = PENDING /\ Idle

\* the pending call returns r
Return(r) ==
    /\ ret = PENDING
    /\ ret' = r
    /\ UNCHANGED <<fn, arg, entry, platform, argv, pc, calls, parts, data, out,
                   exc, served>>

CallBytesToHuman ==
    /\ fn = "bytes_to_human"
    /\ Return(bytes_to_human(arg))

NextFmt == CallBytesToHuman

SpecFmt == InitFmt /\ [][NextFmt]_vars

(***************************************************************************)
(* The collectors with sub-probes, each on its own, over everything the    *)
(* provider can answer                                                     *)
(***************************************************************************)
InitCollectors ==
    /\ fn \in {"cpu_info", "disk_info", "network_info"}
    /\ arg \in CASE fn = "cpu_info" ->
                    {[plat |-> "darwin", env |-> e] : e \in CpuEnvs("darwin")}
                    \cup {[plat |-> "linux", env |-> e] : e \in CpuEnvs("linux")}
                 [] fn = "disk_info" -> DiskEnvs
                 [] fn = "network_info" -> NetworkEnvs
    /\ ret = PENDING
    /\ Idle

CallCpuInfo ==
    /\ fn = "cpu_info"
    /\ Return(cpu_info(arg.plat, arg.env))

CallDiskInfo ==
    /\ fn = "disk_info"
    /\ Return(disk_info(arg))

CallNetworkInfo ==
    /\ fn = "network_info"
    /\ Return(network_info(arg))

NextCollectors ==
    \/ CallCpuInfo
    \/ CallDiskInfo
    \/ CallNetworkInfo

SpecCollectors == InitCollectors /\ [][NextCollectors]_vars

(***************************************************************************)
(* Claims about bytes_to_human (checked under SpecFmt)                     *)
(***************************************************************************)
Returned == "pending" \notin DOMAIN ret
Raised == "raised" \in DOMAIN ret
IsString == "unit" \in DOMAIN ret

\* the multiplier of a unit, as the power of 1024 it stands for
UnitIndex(u) == CHOOSE i \in 0..5 : symbols[i + 1] = u

\* the largest i in 1..5 with 1024^i <= arg, stated without the loop
LargestUnit(x, i) ==
    /\ i \in 1..5
    /\ Leq([m |-> 1, e |-> i], x)
    /\ i = 5 \/ Less(x, [m |-> 1, e |-> i + 1])

\* the shape C1 promises for the returned string
C1_Shape ==
    /\ Less(arg, Int0(1024)) =>
           ret.unit = "B" /\ ret.frac = <<>> /\ Same(ret.whole, arg)
    /\ ~Less(arg, Int0(1024)) =>
           /\ Len(ret.frac) = 2
           /\ ret.frac[1] \in 0..9 /\ ret.frac[2] \in 0..9
           /\ ret.unit # "B"
           /\ LargestUnit(arg, UnitIndex(ret.unit))
    /\ Same(arg, Int0(0)) => ret = [whole |-> Int0(0), frac |-> <<>>, unit |-> "B"]
    /\ Same(arg, Int0(1536)) =>
           ret = [whole |-> Int0(1), frac |-> <<5, 0>>, unit |-> "KB"]
    /\ Same(arg, [m |-> 1, e |-> 3]) =>
           /\ Same(ret.whole, Int0(1)) /\ ret.frac = <<0, 0>> /\ ret.unit = "GB"

\* C1: for every non-negative arg, bytes_to_human(arg) is "<arg> B" when arg < 1024 and
\* otherwise two decimals in the largest unit of KB..PB whose multiplier is <= arg
\* (0 -> "0 B", 1536 -> "1.50 KB", 2^30 -> "1.00 GB"), and no input raises.
C1_NoRaiseAndShape == Returned => (~Raised /\ C1_Shape)

\* what does hold: the shape, for every input below 2^1024
C1_ShapeBelowOverflow == (Returned /\ ~FloatOverflows(arg)) => (~Raised /\ C1_Shape)

\* the numeric part of the returned string, in hundredths
Hundredths(s) ==
    IF s.frac = <<>> THEN [m |-> 100 * s.whole.m, e |-> s.whole.e]
    ELSE IF s.whole.e = 0
         THEN Int0(100 * s.whole.m + 10 * s.frac[1] + s.frac[2])
         ELSE [m |-> 100 * s.whole.m, e |-> s.whole.e]

\* 100 * (numeric part * unit multiplier)
Scaled100(s) ==
    [m |-> Hundredths(s).m, e |-> Hundredths(s).e + UnitIndex(s.unit)]

N100 == [m |-> 100 * arg.m, e |-> arg.e]

\* C2 as stated: numeric part * unit multiplier lies within [arg/1024, arg]
C2_WithinClosedInterval ==
    (Returned /\ IsString) =>
        /\ Leq(N100, [m |-> Scaled100(ret).m, e |-> Scaled100(ret).e + 1])
        /\ Leq(Scaled100(ret), N100)

\* C2 amended: numeric part * unit multiplier lies within
\* [arg/1024, arg + u/200], u the unit's multiplier: the two decimals are
\* rounded to nearest, so the product can exceed arg by half a hundredth of u.
C2_WithinHalfHundredth ==
    (Returned /\ IsString) =>
        /\ Leq(N100, [m |-> Scaled100(ret).m, e |-> Scaled100(ret).e + 1])
        /\ \/ Leq(Scaled100(ret), N100)
           \/ /\ Hundredths(ret).e = 0
              /\ Leq([m |-> 2 * Hundredths(ret).m - 1, e |-> UnitIndex(ret.unit)],
                     [m |-> 200 * arg.m, e |-> arg.e])

\* 1535 bytes comes back as "1.50 KB": 1.50 * 1024 = 1536 > 1535
C2_Witness ==
    /\ Same(arg, Int0(1535))
    /\ Returned /\ IsString
    /\ ret.unit = "KB" /\ ret.whole = Int0(1) /\ ret.frac = <<5, 0>>
    /\ Less(N100, Scaled100(ret))

C6_EachProbeOnItsOwn ==
    (fn = "cpu_info" /\ Returned) =>
        /\ ~DidRaise(ret)
        /\ LET info == ret.returns
               env == arg.env
           IN  /\ info.physical_cores =
                      IF DidRaise(env.physical) THEN None ELSE env.physical.returns
               /\ info.total_cores =
                      IF DidRaise(env.logical) THEN None ELSE env.logical.returns
               /\ info.total_usage_percent =
                      IF DidRaise(env.pct_total) THEN None
                      ELSE Val(env.pct_total.returns)
               /\ info.per_core_usage_percent =
                      IF DidRaise(env.pct_percpu) THEN None
                      ELSE Val(env.pct_percpu.returns)
               /\ (info.max_frequency_mhz = None)
                      <=> (DidRaise(env.freq) \/ env.freq.returns = None)

IsDottedQuad(ip) == Len(ip) = 4 /\ \A i \in 1..4 : ip[i] \in 0..255

\* C10: the outbound socket is tried first and its address used when it gives
\* one; the host name is resolved only when the socket step failed or gave no
\* address; primary_ip is None exactly when both steps fail; neither failure
\* makes network_info raise or touches hostname or the interfaces.
C10_FallbackChain ==
    (/\ fn = "network_info" /\ Returned
     /\ ~DidRaise(arg.if_addrs) /\ ~DidRaise(arg.if_stats)) =>
        /\ ~DidRaise(ret)
        /\ LET ip == ret.returns.primary_ip
               gave == ~DidRaise(arg.sock) /\ arg.sock.returns # <<>>
           IN  /\ gave => ip = Val(arg.sock.returns)
               /\ (~gave /\ ~DidRaise(arg.resolve)) => ip = Val(arg.resolve.returns)
               /\ (ip = None) <=> (~gave /\ DidRaise(arg.resolve))
        /\ ret.returns.hostname = arg.hostname
        /\ Len(ret.returns.interfaces) = Len(arg.if_addrs.returns)
        /\ \A i \in 1..Len(arg.if_addrs.returns) :
               LET name == arg.if_addrs.returns[i].name
                   brief == ret.returns.interfaces[i].brief
               IN  /\ ret.returns.interfaces[i].name = name
                   /\ (brief.mtu = None) <=> (name \notin DOMAIN arg.if_stats.returns)
                   /\ \A j \in 1..Len(brief.ipv4) : IsDottedQuad(brief.ipv4[j])

\* the socket step failed, the resolution gave the address that is reported
C10_Witness ==
    /\ fn = "network_info" /\ Returned /\ ~DidRaise(ret)
    /\ DidRaise(arg.sock)
    /\ arg.resolve = Returns(ResolvedAddress)
    /\ ret.returns.primary_ip = Val(ResolvedAddress)
    /\ Len(ret.returns.interfaces) = 2

(***************************************************************************)
(* Claims about the two programs (checked under Spec)                      *)
(***************************************************************************)
Snapshot == pc = "returned"

\* C3: a snapshot has exactly the keys os, cpu, memory, disks, network,
\* battery; os, cpu, memory and network are never None and carry their full
\* key sets, a failed sub-probe showing as a None value; disks is a sequence;
\* battery is None or has exactly percent, plugged, secsleft.
C3_StableSchema ==
    Snapshot =>
        /\ DOMAIN data = {"os", "cpu", "memory", "disks", "network", "battery"}
        /\ data.os # None /\ data.cpu # None
        /\ data.memory # None /\ data.network # None
        /\ DOMAIN data.os = {"system", "node_name", "release", "version", "machine",
                             "processor", "python", "boot_time"}
        /\ DOMAIN data.cpu = {"architecture", "physical_cores", "total_cores",
                              "max_frequency_mhz", "min_frequency_mhz",
                              "current_frequency_mhz", "total_usage_percent",
                              "per_core_usage_percent", "brand", "l1i_cache",
                              "l1d_cache", "l2_cache", "l3_cache"}
        /\ DOMAIN data.memory = {"total", "available", "used", "free", "percent",
                                 "swap_total", "swap_used", "swap_free",
                                 "swap_percent"}
        /\ DOMAIN data.disks = 1..Len(data.disks)
        /\ \A i \in 1..Len(data.disks) :
               DOMAIN data.disks[i] = {"device", "mountpoint", "fstype", "opts",
                                       "total", "used", "free", "percent"}
        /\ DOMAIN data.network = {"hostname", "primary_ip", "interfaces"}
        /\ \A i \in 1..Len(data.network.interfaces) :
               DOMAIN data.network.interfaces[i].brief =
                   {"isup", "speed_mbps", "mtu", "ipv4"}
        /\ \/ data.battery = None
           \/ DOMAIN data.battery[1] = {"percent", "plugged", "secsleft"}

\* a snapshot served by the tool on a host where the frequency, the
\* utilization, the cache sizes, a disk and the battery could not be read
C3_Witness ==
    /\ Snapshot /\ entry = "server"
    /\ data.cpu.max_frequency_mhz = None
    /\ data.cpu.total_usage_percent = None
    /\ data.cpu.l2_cache = None
    /\ Len(data.disks) = 2 /\ data.disks[2].total = None
    /\ data.network.primary_ip = None
    /\ data.battery = None

\* C5: in every snapshot network.primary_ip is None or a valid dotted quad
\* other than 127.0.0.1
C5_PrimaryIpNotLoopback ==
    Snapshot =>
        \/ data.network.primary_ip = None
        \/ /\ IsDottedQuad(data.network.primary_ip[1])
           /\ data.network.primary_ip[1] # <<127, 0, 0, 1>>

HasJsonFlag == \E i \in 1..Len(argv) : argv[i] = "--json"

\* the section titles printed, in the order printed
RECURSIVE SectionsOf(_)
SectionsOf(lines) ==
    IF lines = <<>> THEN <<>>
    ELSE (IF "section" \in DOMAIN Head(lines) THEN <<Head(lines).section>>
          ELSE <<>>) \o SectionsOf(Tail(lines))

\* C7: without --json main prints the sections OS, CPU, memory, disk, network,
\* battery in that order, the battery section exactly when the snapshot's
\* battery is not None; with --json it prints only the JSON text of the
\* snapshot, battery null when there is no battery, and no section.
C7_SectionsInOrder ==
    (entry = "cli" /\ pc = "exit") =>
        IF HasJsonFlag
        THEN /\ Len(out) = 1
             /\ DOMAIN out[1] = {"json"}
             /\ DOMAIN out[1].json = DOMAIN data
             /\ (out[1].json.battery = [json |-> "null"]) <=> (data.battery = None)
        ELSE SectionsOf(out) =
                 <<"OS", "CPU", "Memory", "Disk", "Network">>
                 \o (IF data.battery # None THEN <<"Battery">> ELSE <<>>)

\* a report printed on a host without a battery
C7_Witness ==
    /\ entry = "cli" /\ pc = "exit" /\ ~HasJsonFlag
    /\ data.battery = None
    /\ Len(SectionsOf(out)) = 5

\* C8: the CLI prints nothing before the whole aggregation is done: either a
\* whole report of one complete snapshot is printed, or a collector raised and
\* nothing at all was printed.
C8_NothingPrintedBeforeAggregation ==
    entry = "cli" =>
        /\ pc # "exit" => out = <<>>
        /\ exc # None => (out = <<>> /\ pc = "crashed")
        /\ out # <<>> =>
               /\ exc = None
               /\ Len(calls) = 6
               /\ DOMAIN data = {"os", "cpu", "memory", "disks", "network", "battery"}
               /\ \/ DOMAIN out[1] = {"json"}
                  \/ SectionsOf(SubSeq(out, 1, 1)) = <<"OS">>

\* the memory collector raised after os and cpu were collected: nothing printed
C8_Witness ==
    /\ entry = "cli" /\ pc = "crashed" /\ exc # None
    /\ calls = <<"os", "cpu", "memory">>
    /\ out = <<>>

\* s is an initial segment of t
IsPrefix(s, t) == Len(s) <= Len(t) /\ SubSeq(t, 1, Len(s)) = s

\* C9: a call of get_host_info calls each collector once, in the order os, cpu,
\* memory, disk, network, battery, with no retry and nothing kept from an
\* earlier call: every request of the tool gets a snapshot built anew.
C9_EachCollectorOnceInOrder ==
    /\ IsPrefix(calls, <<"os", "cpu", "memory", "disks", "network", "battery">>)
    /\ Snapshot =>
           calls = <<"os", "cpu", "memory", "disks", "network", "battery">>
    /\ pc \in {"os", "cpu", "memory", "disks", "network", "battery"} =>
           /\ data = None
           /\ DOMAIN parts = {calls[i] : i \in 1..Len(calls)}
           /\ exc = None
    /\ pc = "os" => calls = <<>>

\* the second request of a server run has all six collectors called again
C9_Witness ==
    /\ entry = "server" /\ served = 1 /\ Snapshot
    /\ calls = <<"os", "cpu", "memory", "disks", "network", "battery">>

====
